---- MODULE Spec2Model ----
(***************************************************************************)
(* Model of the copy-on-write block store of zulu-cow: class                *)
(* ImageBackingStore (zulu_cow.cpp, with the class declaration that         *)
(* zulu_cow.cpp is compiled against) running over the in-memory FsFile of   *)
(* fsfile_mock.h, next to the plain reference copy `fs` that cow_test.cpp   *)
(* keeps in step with it.                                                   *)
(*                                                                          *)
(* Byte offsets are 0-based as in the source; TLA+ sequences are 1-based,   *)
(* so byte x of a file is m_data[x + 1].                                    *)
(***************************************************************************)
EXTENDS Integers, Sequences, FiniteSets, TLC

VARIABLES
    bs,     \* the ImageBackingStore instance (record of its members)
    fs,     \* cow_test.cpp: the plain mutable copy of the image
    last,   \* the last call made on the store, with what it returned
    hist,   \* history flags of the run (all writes successful / block aligned)
    phase,  \* "new", "ready", or how the process ended
    nops,   \* number of calls made so far (bounds the exploration)
    sizing  \* the sizing arithmetic on its own: its inputs and its result

vars == <<bs, fs, last, hist, phase, nops, sizing>>

----------------------------------------------------------------------------
(* Bounds of the exploration *)

\* calls (set_position, cow_read, cow_write) explored after construction
MaxOps == 3

\* image sizes in bytes, and the constructor arguments tried
ImageSizes == {6, 9}
BlockSizes == {1, 2, 3}
BitmapMaxSizes == {1}
BufferSizes == {1, 2}

\* block counts tried by the sizing arithmetic: 1..MaxSectors, and the
\* MaxTop largest uint32_t values; bitmap capacities 1..MaxBitmap bytes
MaxSectors == 40
MaxTop == 12
MaxBitmap == 3

\* how many bytes past the end of the image a request may reach
Overrun == 2

\* the cursor positions tried lie up to MaxBack bytes from the start of the
\* image, from its end and from 2^32; a request has up to MaxCount bytes
MaxBack == 6
MaxCount == 3

\* first byte of a write payload; byte i of the payload is tag + i
PayloadTags == {100}

Min(a, b) == IF a < b THEN a ELSE b

\* F applied to the value of x: x is computed once, before F uses it
Bind(x, F(_)) == CHOOSE out \in {F(v) : v \in {x}} : TRUE

\* the original image: byte x holds x + 1 (distinct per offset, never 0)
OrigImage(size) == [i \in 1..size |-> i]

\* cow_test.cpp fills a write buffer; here byte i (0-based) is tag + i
Payload(tag, count) == [i \in 1..count |-> tag + i - 1]

----------------------------------------------------------------------------
(* fsfile_mock.h: FsFile, a fixed-size in-memory file *)

IMG_TYPE_ORIG == "ORIG"
IMG_TYPE_DIRTY == "DIRTY"

FsFile(data) == [m_data |-> data, m_position |-> 0]

FsSize(f) == Len(f.m_data)

FsOpen(f) == [f EXCEPT !.m_position = 0]

FsSeek(f, position) == [f EXCEPT !.m_position = Min(position, Len(f.m_data))]

\* read(buf, count): [file, ret, buf]; buf holds the ret bytes read
FsRead(f, count) ==
    LET bytes_to_read == Min(count, Len(f.m_data) - f.m_position)
    IN  IF bytes_to_read = 0
        THEN [file |-> f, ret |-> 0, buf |-> <<>>]
        ELSE [file |-> [f EXCEPT !.m_position = f.m_position + bytes_to_read],
              ret  |-> bytes_to_read,
              buf  |-> SubSeq(f.m_data, f.m_position + 1, f.m_position + bytes_to_read)]

\* write(buf, count): [file, ret]; buf is a sequence of at least count bytes
FsWrite(f, buf, count) ==
    IF f.m_position >= Len(f.m_data)
    THEN [file |-> f, ret |-> 0]
    ELSE LET bytes_to_write == Min(count, Len(f.m_data) - f.m_position)
         IN  IF bytes_to_write = 0
             THEN [file |-> f, ret |-> 0]
             ELSE [file |-> [m_data |-> SubSeq(f.m_data, 1, f.m_position)
                                        \o SubSeq(buf, 1, bytes_to_write)
                                        \o SubSeq(f.m_data,
                                                  f.m_position + bytes_to_write + 1,
                                                  Len(f.m_data)),
                             m_position |-> f.m_position + bytes_to_write],
                   ret  |-> bytes_to_write]

\* resize(new_size): the data cut or extended with zeros, the position
\* kept inside it
FsResize(f, new_size) ==
    [m_data |-> IF new_size <= Len(f.m_data)
                THEN SubSeq(f.m_data, 1, new_size)
                ELSE f.m_data \o [i \in 1..(new_size - Len(f.m_data)) |-> 0],
     m_position |-> Min(f.m_position, new_size)]

----------------------------------------------------------------------------
(* uint32_t arithmetic of the constructor.  A uint32_t is held as two      *)
(* 16-bit halves, value = hi * 65536 + lo, so that sums wrap modulo 2^32   *)
(* exactly as in the source.                                               *)

Half == 2 ^ 16

U32(n) == [hi |-> (n \div Half) % Half, lo |-> n % Half]

U32Zero == [hi |-> 0, lo |-> 0]

\* the largest uint32_t, 2^32 - 1
U32Max == [hi |-> Half - 1, lo |-> Half - 1]

\* the value as an integer; only for values below 2^31
U32Int(a) == a.hi * Half + a.lo

U32Less(a, b) == a.hi < b.hi \/ (a.hi = b.hi /\ a.lo < b.lo)

U32Leq(a, b) == ~U32Less(b, a)

\* a + b modulo 2^32
U32Add(a, b) ==
    LET lo == a.lo + b.lo
    IN  [hi |-> (a.hi + b.hi + (lo \div Half)) % Half, lo |-> lo % Half]

\* a - b modulo 2^32
U32Sub(a, b) ==
    IF a.lo >= b.lo
    THEN [hi |-> (a.hi - b.hi + Half) % Half, lo |-> a.lo - b.lo]
    ELSE [hi |-> (a.hi - b.hi - 1 + 2 * Half) % Half, lo |-> a.lo + Half - b.lo]

\* a * k modulo 2^32, for a small integer k
U32MulSmall(a, k) ==
    LET lo == a.lo * k
    IN  [hi |-> (a.hi * k + (lo \div Half)) % Half, lo |-> lo % Half]

\* a * k for a small integer k, not reduced
PairMul(a, k) ==
    LET lo == a.lo * k
    IN  [hi |-> a.hi * k + (lo \div Half), lo |-> lo % Half]

\* a - b for a >= b, not reduced
PairSub(a, b) ==
    IF a.lo >= b.lo
    THEN [hi |-> a.hi - b.hi, lo |-> a.lo - b.lo]
    ELSE [hi |-> a.hi - b.hi - 1, lo |-> a.lo + Half - b.lo]

\* the four bytes of a, most significant first
U32Bytes(a) == <<a.hi \div 256, a.hi % 256, a.lo \div 256, a.lo % 256>>

\* one step of long division in base 256: the remainder r < d takes the
\* next byte of the dividend and gives a quotient byte and a new remainder
DivStep(st, byte, d) ==
    Bind(PairMul(st.r, 256), LAMBDA t0 :
    Bind([hi |-> t0.hi + ((t0.lo + byte) \div Half), lo |-> (t0.lo + byte) % Half],
         LAMBDA t1 :
    Bind(CHOOSE k \in 0..255 : /\ U32Leq(PairMul(d, k), t1)
                               /\ U32Less(t1, PairMul(d, k + 1)),
         LAMBDA k :
        [q |-> [hi |-> (st.q.hi * 256 + (st.q.lo \div 256)) % Half,
                lo |-> (st.q.lo % 256) * 256 + k],
         r |-> PairSub(t1, PairMul(d, k))])))

\* a / d as the unsigned division of the source, d # 0
U32Div(a, d) ==
    Bind(<<U32Bytes(a), d>>, LAMBDA n :
    Bind(DivStep([q |-> U32Zero, r |-> U32Zero], n[1][1], n[2]), LAMBDA s1 :
    Bind(DivStep(s1, n[1][2], n[2]), LAMBDA s2 :
    Bind(DivStep(s2, n[1][3], n[2]), LAMBDA s3 :
        DivStep(s3, n[1][4], n[2]).q))))

----------------------------------------------------------------------------
(* zulu_cow.cpp: construction-time sizing (lines 34-48), in uint32_t       *)

\* what a uint32_t division by zero (undefined behaviour) may produce: a
\* trap that ends the process, or some quotient
DivZeroOutcomes ==
    {[trap |-> TRUE, q |-> U32Zero], [trap |-> FALSE, q |-> U32Zero],
     [trap |-> FALSE, q |-> U32Max]}

\* max_groups = bitmap_max_size * 8
MaxGroups(bitmap_max_size) == U32MulSmall(bitmap_max_size, 8)

\* (a + b - 1) / b as the source computes it; dz is the outcome when b = 0
CeilDiv(a, b, dz) ==
    IF b = U32Zero
    THEN dz
    ELSE [trap |-> FALSE, q |-> U32Div(U32Sub(U32Add(a, b), U32(1)), b)]

\* m_cow_group_size = (total_sectors + max_groups - 1) / max_groups
GroupSize(total_sectors, max_groups, dz) == CeilDiv(total_sectors, max_groups, dz)

\* m_cow_group_count = (total_sectors + m_cow_group_size - 1) / m_cow_group_size
GroupCount(total_sectors, group_size, dz) == CeilDiv(total_sectors, group_size, dz)

\* m_bitmap_size = (m_cow_group_count + 7) / 8
BitmapSize(group_count) == U32Div(U32Add(group_count, U32(7)), U32(8))

\* the sizing part of the constructor; trapped: a division by zero ended
\* the process; assert_ok: assert(m_cow_group_count <= max_groups) held
Sizing(total_sectors, bitmap_max_size, scsi_block_size, dz) ==
    Bind(MaxGroups(bitmap_max_size), LAMBDA max_groups :
    Bind(GroupSize(total_sectors, max_groups, dz), LAMBDA gs :
    Bind(GroupCount(total_sectors, gs.q, dz), LAMBDA gc :
        [trapped |-> gs.trap \/ gc.trap,
         total_sectors |-> total_sectors,
         max_groups |-> max_groups,
         m_cow_group_size |-> gs.q,
         m_cow_group_size_bytes |-> U32MulSmall(gs.q, scsi_block_size),
         m_cow_group_count |-> gc.q,
         assert_ok |-> U32Leq(gc.q, max_groups),
         m_bitmap_size |-> BitmapSize(gc.q)])))

----------------------------------------------------------------------------
(* class ImageBackingStore: bitmap and region index.  In an operator, s is *)
(* the record of the instance's members under their source names.  The    *)
(* offsets of the images modelled here stay far below 2^31, so plain       *)
(* integers stand for the uint32_t offsets of the read and write paths.    *)

groupFromOffset(s, offset) == (offset \div s.m_cow_group_size) \div s.m_scsi_block_size

offsetFromGroup(s, group) == group * s.m_cow_group_size * s.m_scsi_block_size

\* the condition of assert(group < m_cow_group_count)
GroupInRange(s, group) == group < s.m_cow_group_count

\* the call cannot go on with this group: the assertion fails (built without
\* NDEBUG), or the assertion is compiled out and the group's bit lies
\* outside the allocated bitmap
AssertFails(s, group) ==
    /\ ~GroupInRange(s, group)
    /\ (~s.NDEBUG \/ group \div 8 >= s.m_bitmap_size)

\* bit (group % 8) of byte (group / 8) of the bitmap
BitIsSet(s, group) ==
    (s.m_cow_bitmap[(group \div 8) + 1] \div (2 ^ (group % 8))) % 2 = 1

getGroupImageType(s, group) ==
    IF BitIsSet(s, group) THEN IMG_TYPE_DIRTY ELSE IMG_TYPE_ORIG

\* ^= (1 << (group % 8)): marking a dirty group again clears it
setGroupImageType_Toggle(s, group, type) ==
    [s EXCEPT !.m_cow_bitmap[(group \div 8) + 1] =
        IF BitIsSet(s, group) THEN @ - 2 ^ (group % 8) ELSE @ + 2 ^ (group % 8)]

\* |= (1 << (group % 8)) for IMG_TYPE_DIRTY, &= ~(1 << (group % 8)) otherwise
setGroupImageType(s, group, type) ==
    LET k == (group \div 8) + 1
        bit == 2 ^ (group % 8)
        byte == s.m_cow_bitmap[k]
    IN  [s EXCEPT !.m_cow_bitmap[k] =
            IF type = IMG_TYPE_DIRTY
            THEN (IF BitIsSet(s, group) THEN byte ELSE byte + bit)
            ELSE (IF BitIsSet(s, group) THEN byte - bit ELSE byte)]

\* memset(m_cow_bitmap, 0, m_bitmap_size)
\* the bitmap as allocated, without the memset
NewBitmap_Uninitialised(size) == [i \in 1..size |-> 255]

NewBitmap(size) == [i \in 1..size |-> 0]

resetStats(s) ==
    [s EXCEPT !.m_bytes_read_original = 0,
              !.m_bytes_read_dirty = 0,
              !.m_bytes_written_dirty = 0,
              !.m_bytes_requested_read = 0,
              !.m_bytes_requested_write = 0,
              !.m_bytes_read_original_cow = 0]

set_position(s, pos) == [s EXCEPT !.m_current_position = pos]

\* the loop of recreate(): group by group, the overlay's bytes of a dirty
\* group and the original's bytes of the others, the last group cut at the
\* end of the image
RECURSIVE RecreateLoop(_, _, _)
RecreateLoop(s, group, data) ==
    IF ~(group < s.m_cow_group_count)
    THEN data
    ELSE Bind(group * (s.m_cow_group_size * s.m_scsi_block_size), LAMBDA pos :
         Bind(Min(s.m_cow_group_size * s.m_scsi_block_size,
                  FsSize(s.m_fsfile_orig) - pos), LAMBDA bytes_to_copy :
         Bind(IF getGroupImageType(s, group) = IMG_TYPE_DIRTY
              THEN s.m_fsfile_dirty.m_data ELSE s.m_fsfile_orig.m_data, LAMBDA src :
            RecreateLoop(s, group + 1,
                [i \in 1..Len(data) |->
                    IF i > pos /\ i <= pos + bytes_to_copy THEN src[i] ELSE data[i]]))))

recreate(s) == RecreateLoop(s, 0, [i \in 1..FsSize(s.m_fsfile_orig) |-> 0])

----------------------------------------------------------------------------
(* The read path *)

\* a cell of the caller's buffer that no read has filled
Unfilled == 0 - 1

\* memcpy of n bytes of src into dest at 0-based index at
Fill(dest, at, src, n) ==
    SubSeq(dest, 1, at) \o SubSeq(src, 1, n) \o SubSeq(dest, at + n + 1, Len(dest))

\* cow_read_single keeping in the overlay a copy of what it read from the
\* original
cow_read_single_CopiesToOverlay(s, from, count) ==
    IF getGroupImageType(s, groupFromOffset(s, from)) = IMG_TYPE_DIRTY
    THEN Bind(FsRead(FsSeek(s.m_fsfile_dirty, from), count), LAMBDA r :
            [s   |-> [s EXCEPT !.m_bytes_read_dirty = @ + count,
                               !.m_fsfile_dirty = r.file],
             ret |-> r.ret, buf |-> r.buf, src |-> IMG_TYPE_DIRTY])
    ELSE Bind(FsRead(FsSeek(s.m_fsfile_orig, from), count), LAMBDA r :
            [s   |-> [s EXCEPT !.m_bytes_read_original = @ + count,
                               !.m_fsfile_orig = r.file,
                               !.m_fsfile_dirty =
                                   FsWrite(FsSeek(@, from), r.buf, r.ret).file],
             ret |-> r.ret, buf |-> r.buf, src |-> IMG_TYPE_ORIG])

\* cow_read_single(from, count, buf): [s, ret, buf, src]
cow_read_single(s, from, count) ==
    IF getGroupImageType(s, groupFromOffset(s, from)) = IMG_TYPE_DIRTY
    THEN Bind(FsRead(FsSeek(s.m_fsfile_dirty, from), count), LAMBDA r :
            [s   |-> [s EXCEPT !.m_bytes_read_dirty = @ + count,
                               !.m_fsfile_dirty = r.file],
             ret |-> r.ret, buf |-> r.buf, src |-> IMG_TYPE_DIRTY])
    ELSE Bind(FsRead(FsSeek(s.m_fsfile_orig, from), count), LAMBDA r :
            [s   |-> [s EXCEPT !.m_bytes_read_original = @ + count,
                               !.m_fsfile_orig = r.file],
             ret |-> r.ret, buf |-> r.buf, src |-> IMG_TYPE_ORIG])

\* a chunk that stops at the first group boundary
ChunkEnd_OneGroup(s, to, chunk_end, current_type) ==
    Min(to, offsetFromGroup(s, groupFromOffset(s, chunk_end) + 1))

\* a chunk that runs to the end of the request whatever the groups' types
ChunkEnd_NoTypeCheck(s, to, chunk_end, current_type) == to

\* the inner loop of cow_read: extend the chunk while the image type stays
\* the same and `to` is not reached
RECURSIVE ChunkEnd(_, _, _, _)
ChunkEnd(s, to, chunk_end, current_type) ==
    IF /\ chunk_end < to
       /\ groupFromOffset(s, chunk_end) < s.m_cow_group_count
       /\ getGroupImageType(s, groupFromOffset(s, chunk_end)) = current_type
    THEN ChunkEnd(s, to,
                  Min(to, offsetFromGroup(s, groupFromOffset(s, chunk_end) + 1)),
                  current_type)
    ELSE chunk_end

\* one recorded cow_read_single call
Chunk(src, from, count, ret) == [src |-> src, from |-> from, count |-> count, ret |-> ret]

\* what cow_read hands back: the store, the return value, the caller's
\* buffer, the cow_read_single calls made, and whether an assertion failed
ReadResult(s, ret, buf, chunks, aborted) ==
    [s |-> s, ret |-> ret, buf |-> buf, chunks |-> chunks, aborted |-> aborted]

\* the outer loop of cow_read(from, to, buf).  total is total_bytes_read
\* (and buffer_ptr - buf)
RECURSIVE ReadLoop(_, _, _, _, _, _)
ReadLoop(s, to, current_offset, total, dest, chunks) ==
    IF ~(current_offset < to)
    THEN ReadResult(s, total, dest, chunks, FALSE)
    ELSE IF AssertFails(s, groupFromOffset(s, current_offset))
    THEN ReadResult(s, total, dest, chunks, TRUE)
    ELSE Bind(ChunkEnd(s, to, current_offset,
                       getGroupImageType(s, groupFromOffset(s, current_offset))),
              LAMBDA chunk_end :
         Bind(cow_read_single(s, current_offset, chunk_end - current_offset),
              LAMBDA r :
         Bind(Append(chunks, Chunk(r.src, current_offset,
                                   chunk_end - current_offset, r.ret)),
              LAMBDA cs :
            IF r.ret <= 0
            THEN ReadResult(r.s, total, dest, cs, FALSE)
            ELSE Bind(Fill(dest, total, r.buf, r.ret), LAMBDA d :
                    ReadLoop(r.s, to, chunk_end, total + r.ret, d, cs)))))

\* cow_read(from, to, buf)
cow_read_range(s, from, to) ==
    ReadLoop(s, to, from, 0, [i \in 1..(to - from) |-> Unfilled], <<>>)

\* cow_read(buf, count): the wrapper that works at m_current_position
cow_read(s, count) ==
    Bind([s EXCEPT !.m_bytes_requested_read = @ + count], LAMBDA s1 :
    Bind(cow_read_range(s1, s.m_current_position, s.m_current_position + count),
         LAMBDA r :
        [r EXCEPT !.s = IF r.ret > 0
                        THEN set_position(r.s, r.s.m_current_position + r.ret)
                        ELSE r.s]))

----------------------------------------------------------------------------
(* The write path *)

\* a write that was not made
NotCalled == 0 - 1

\* one round of the copy loop: the offsets of the two files before it, its
\* chunk_size, and what read and write returned
CopyPair(at_orig, at_dirty, chunk_size, bytes_read, bytes_written) ==
    [at_orig |-> at_orig, at_dirty |-> at_dirty, chunk_size |-> chunk_size,
     bytes_read |-> bytes_read, bytes_written |-> bytes_written]

\* one round of the copy loop with the chunk_size it computed: the read,
\* the write and the counters.  Result: [s, ok, pair]; ok: neither call
\* came back short
CopyRound(s, chunk_size) ==
    Bind(FsRead(s.m_fsfile_orig, chunk_size), LAMBDA r :
    Bind([s EXCEPT !.m_fsfile_orig = r.file], LAMBDA s1 :
        IF r.ret # chunk_size
        THEN [s |-> s1, ok |-> FALSE,
              pair |-> CopyPair(s.m_fsfile_orig.m_position, s.m_fsfile_dirty.m_position,
                                chunk_size, r.ret, NotCalled)]
        ELSE
    Bind(FsWrite(s1.m_fsfile_dirty, r.buf, chunk_size), LAMBDA w :
    Bind([s1 EXCEPT !.m_bytes_read_original_cow = @ + chunk_size,
                    !.m_fsfile_dirty = w.file], LAMBDA s3 :
        [s |-> IF w.ret # chunk_size
               THEN s3
               ELSE [s3 EXCEPT !.m_bytes_written_dirty = @ + chunk_size],
         ok |-> w.ret = chunk_size,
         pair |-> CopyPair(s.m_fsfile_orig.m_position, s.m_fsfile_dirty.m_position,
                           chunk_size, r.ret, w.ret)]))))

\* the copy loop taking all the remaining bytes in one round, whatever
\* m_buffer_size is
RECURSIVE CopyLoop_NoChunking(_, _, _)
CopyLoop_NoChunking(s, bytes_to_copy, bytes_copied) ==
    IF ~(bytes_copied < bytes_to_copy)
    THEN [s |-> s, ret |-> bytes_to_copy, hang |-> FALSE, pairs |-> <<>>]
    ELSE Bind(CopyRound(s, bytes_to_copy - bytes_copied), LAMBDA rd :
            IF ~rd.ok
            THEN [s |-> rd.s, ret |-> 0 - 1, hang |-> FALSE, pairs |-> <<rd.pair>>]
            ELSE [CopyLoop_NoChunking(rd.s, bytes_to_copy,
                                      bytes_copied + rd.pair.chunk_size)
                    EXCEPT !.pairs = <<rd.pair>> \o @])

\* the copy loop of performCopyOnWrite.  Result: [s, ret, hang, pairs];
\* hang: the loop makes no progress (chunk_size = 0 and both calls return
\* 0); pairs: the rounds made, in order
RECURSIVE CopyLoop(_, _, _)
CopyLoop(s, bytes_to_copy, bytes_copied) ==
    IF ~(bytes_copied < bytes_to_copy)
    THEN [s |-> s, ret |-> bytes_to_copy, hang |-> FALSE, pairs |-> <<>>]
    ELSE Bind(CopyRound(s, Min(s.m_buffer_size, bytes_to_copy - bytes_copied)), LAMBDA rd :
            IF ~rd.ok
            THEN [s |-> rd.s, ret |-> 0 - 1, hang |-> FALSE, pairs |-> <<rd.pair>>]
            ELSE IF rd.pair.chunk_size = 0
            THEN [s |-> rd.s, ret |-> 0, hang |-> TRUE, pairs |-> <<rd.pair>>]
            ELSE [CopyLoop(rd.s, bytes_to_copy, bytes_copied + rd.pair.chunk_size)
                    EXCEPT !.pairs = <<rd.pair>> \o @])

\* performCopyOnWrite without m_fsfile_dirty.seek(from_offset)
performCopyOnWrite_NoDirtySeek(s, from_offset, to_offset) ==
    IF ~s.NDEBUG /\ groupFromOffset(s, from_offset) # groupFromOffset(s, to_offset - 1)
    THEN [s |-> s, ret |-> 0, hang |-> FALSE, aborted |-> TRUE, pairs |-> <<>>]
    ELSE Bind([s EXCEPT !.m_fsfile_orig = FsSeek(@, from_offset)], LAMBDA s1 :
         Bind(CopyLoop(s1, to_offset - from_offset, 0), LAMBDA r :
            [s |-> r.s, ret |-> r.ret, hang |-> r.hang, aborted |-> FALSE,
             pairs |-> r.pairs]))

\* performCopyOnWrite(from_offset, to_offset): [s, ret, hang, aborted, pairs]
performCopyOnWrite(s, from_offset, to_offset) ==
    IF ~s.NDEBUG /\ groupFromOffset(s, from_offset) # groupFromOffset(s, to_offset - 1)
    THEN [s |-> s, ret |-> 0, hang |-> FALSE, aborted |-> TRUE, pairs |-> <<>>]
    ELSE Bind([s EXCEPT !.m_fsfile_orig = FsSeek(@, from_offset),
                        !.m_fsfile_dirty = FsSeek(@, from_offset)], LAMBDA s1 :
         Bind(CopyLoop(s1, to_offset - from_offset, 0), LAMBDA r :
            [s |-> r.s, ret |-> r.ret, hang |-> r.hang, aborted |-> FALSE,
             pairs |-> r.pairs]))

\* step (4) marking one group more, when there is one
MarkDirty_OneMore(s, group, last_group) ==
    [s |-> [s EXCEPT !.m_cow_bitmap =
                [k \in 1..Len(@) |->
                    LET Marked == {g \in group..Min(last_group + 1, s.m_cow_group_count - 1) :
                                     g \div 8 = k - 1 /\ ~BitIsSet(s, g)}
                        bits[n \in 0..8] ==
                            IF n = 8 THEN 0
                            ELSE (IF (k - 1) * 8 + n \in Marked THEN 2 ^ n ELSE 0) + bits[n + 1]
                    IN  @[k] + bits[0]]],
     aborted |-> AssertFails(s, last_group)]

\* step (4) marking the first group only
MarkDirty_FirstOnly(s, group, last_group) ==
    IF AssertFails(s, group)
    THEN [s |-> s, aborted |-> TRUE]
    ELSE [s |-> setGroupImageType(s, group, IMG_TYPE_DIRTY), aborted |-> FALSE]

\* step (4) of cow_write: setGroupImageType(group, IMG_TYPE_DIRTY) for every
\* group of [group, last_group]; stops at a failing bounds assertion
RECURSIVE MarkDirty(_, _, _)
MarkDirty(s, group, last_group) ==
    IF group > last_group
    THEN [s |-> s, aborted |-> FALSE]
    ELSE IF AssertFails(s, group)
    THEN [s |-> s, aborted |-> TRUE]
    ELSE Bind(setGroupImageType(s, group, IMG_TYPE_DIRTY), LAMBDA s1 :
            MarkDirty(s1, group + 1, last_group))

\* what cow_write hands back: the store, the return value, the promotions
\* made (cow), and whether it hung or hit an assertion
WriteResult(s, ret, cow, hang, aborted) ==
    [s |-> s, ret |-> ret, cow |-> cow, hang |-> hang, aborted |-> aborted]

\* one recorded performCopyOnWrite call
Promotion(from, to, ret) == [from |-> from, to |-> to, ret |-> ret]

\* step (1) copying the whole first group, the bytes from `from` on included
WritePrefix_WholeGroup(s, from, first_group) ==
    IF AssertFails(s, first_group)
    THEN WriteResult(s, 0, <<>>, FALSE, TRUE)
    ELSE IF getGroupImageType(s, first_group) = IMG_TYPE_ORIG
    THEN Bind(performCopyOnWrite(s, offsetFromGroup(s, first_group),
                                 Min(offsetFromGroup(s, first_group + 1),
                                     FsSize(s.m_fsfile_orig))), LAMBDA r :
            WriteResult(r.s, r.ret,
                        <<Promotion(offsetFromGroup(s, first_group),
                                    Min(offsetFromGroup(s, first_group + 1),
                                        FsSize(s.m_fsfile_orig)), r.ret)>>,
                        r.hang, r.aborted))
    ELSE WriteResult(s, 0, <<>>, FALSE, FALSE)

\* step (1) without the promotion of the bytes before the payload
WritePrefix_NoPromotion(s, from, first_group) ==
    WriteResult(s, 0, <<>>, FALSE, AssertFails(s, first_group))

\* step (1) copying the bytes before the payload whatever the group's state
WritePrefix_AnyType(s, from, first_group) ==
    IF AssertFails(s, first_group)
    THEN WriteResult(s, 0, <<>>, FALSE, TRUE)
    ELSE IF from > offsetFromGroup(s, first_group)
    THEN Bind(performCopyOnWrite(s, offsetFromGroup(s, first_group), from), LAMBDA r :
            WriteResult(r.s, r.ret,
                        <<Promotion(offsetFromGroup(s, first_group), from, r.ret)>>,
                        r.hang, r.aborted))
    ELSE WriteResult(s, 0, <<>>, FALSE, FALSE)

\* step (1) of cow_write: the first group
WritePrefix(s, from, first_group) ==
    IF AssertFails(s, first_group)
    THEN WriteResult(s, 0, <<>>, FALSE, TRUE)
    ELSE IF /\ getGroupImageType(s, first_group) = IMG_TYPE_ORIG
            /\ from > offsetFromGroup(s, first_group)
    THEN Bind(performCopyOnWrite(s, offsetFromGroup(s, first_group), from), LAMBDA r :
            WriteResult(r.s, r.ret,
                        <<Promotion(offsetFromGroup(s, first_group), from, r.ret)>>,
                        r.hang, r.aborted))
    ELSE WriteResult(s, 0, <<>>, FALSE, FALSE)

\* step (2) of cow_write: the payload goes to the overlay at from
WritePayload(s, from, buf, count) ==
    Bind(FsWrite(FsSeek(s.m_fsfile_dirty, from), buf, count), LAMBDA w :
        [s |-> [s EXCEPT !.m_fsfile_dirty = w.file], ret |-> w.ret])

\* step (3) without the promotion of the bytes after the payload
WriteSuffix_NoPromotion(s, to, last_group, cow) ==
    WriteResult(s, 0, cow, FALSE, AssertFails(s, last_group))

\* step (3) copying up to the end of the group after the last one
WriteSuffix_TwoGroups(s, to, last_group, cow) ==
    IF AssertFails(s, last_group)
    THEN WriteResult(s, 0, cow, FALSE, TRUE)
    ELSE IF /\ getGroupImageType(s, last_group) = IMG_TYPE_ORIG
            /\ to < offsetFromGroup(s, last_group + 1)
    THEN Bind(performCopyOnWrite(s, to, offsetFromGroup(s, last_group + 2)), LAMBDA r :
            WriteResult(r.s, r.ret,
                        Append(cow, Promotion(to, offsetFromGroup(s, last_group + 2), r.ret)),
                        r.hang, r.aborted))
    ELSE WriteResult(s, 0, cow, FALSE, FALSE)

\* step (3) of cow_write: the last group
WriteSuffix(s, to, last_group, cow) ==
    IF AssertFails(s, last_group)
    THEN WriteResult(s, 0, cow, FALSE, TRUE)
    ELSE IF /\ getGroupImageType(s, last_group) = IMG_TYPE_ORIG
            /\ to < offsetFromGroup(s, last_group + 1)
    THEN Bind(performCopyOnWrite(s, to, offsetFromGroup(s, last_group + 1)), LAMBDA r :
            WriteResult(r.s, r.ret,
                        Append(cow, Promotion(to, offsetFromGroup(s, last_group + 1), r.ret)),
                        r.hang, r.aborted))
    ELSE WriteResult(s, 0, cow, FALSE, FALSE)

\* cow_write(from, to, buf) going on after a failed prefix promotion
cow_write_range_IgnorePrefixError(s, from, to, buf) ==
    Bind(<<groupFromOffset(s, from), groupFromOffset(s, to - 1)>>, LAMBDA g :
    Bind(WritePrefix(s, from, g[1]), LAMBDA p :
        IF p.aborted \/ p.hang
        THEN p
        ELSE
    Bind(WritePayload(p.s, from, buf, to - from), LAMBDA w :
        IF w.ret <= 0
        THEN WriteResult(w.s, w.ret, p.cow, FALSE, FALSE)
        ELSE
    Bind([w.s EXCEPT !.m_bytes_written_dirty = @ + (to - from)], LAMBDA s3 :
    Bind(WriteSuffix(s3, to, g[2], p.cow), LAMBDA x :
        IF x.aborted \/ x.hang \/ x.ret < 0
        THEN x
        ELSE
    Bind(MarkDirty(x.s, g[1], g[2]), LAMBDA m :
        WriteResult(m.s, w.ret, x.cow, FALSE, m.aborted)))))))

\* cow_write(from, to, buf) marking the groups whatever the promotion of
\* the bytes after the payload returned
cow_write_range_MarkOnSuffixError(s, from, to, buf) ==
    Bind(<<groupFromOffset(s, from), groupFromOffset(s, to - 1)>>, LAMBDA g :
    Bind(WritePrefix(s, from, g[1]), LAMBDA p :
        IF p.aborted \/ p.hang \/ p.ret < 0
        THEN p
        ELSE
    Bind(WritePayload(p.s, from, buf, to - from), LAMBDA w :
        IF w.ret <= 0
        THEN WriteResult(w.s, w.ret, p.cow, FALSE, FALSE)
        ELSE
    Bind([w.s EXCEPT !.m_bytes_written_dirty = @ + (to - from)], LAMBDA s3 :
    Bind(WriteSuffix(s3, to, g[2], p.cow), LAMBDA x :
        IF x.aborted \/ x.hang
        THEN x
        ELSE
    Bind(MarkDirty(x.s, g[1], g[2]), LAMBDA m :
        WriteResult(m.s, IF x.ret < 0 THEN x.ret ELSE w.ret, x.cow, FALSE, m.aborted)))))))

\* cow_write(from, to, buf)
cow_write_range(s, from, to, buf) ==
    Bind(<<groupFromOffset(s, from), groupFromOffset(s, to - 1)>>, LAMBDA g :
    Bind(WritePrefix(s, from, g[1]), LAMBDA p :
        IF p.aborted \/ p.hang \/ p.ret < 0
        THEN p
        ELSE
    Bind(WritePayload(p.s, from, buf, to - from), LAMBDA w :
        IF w.ret <= 0
        THEN WriteResult(w.s, w.ret, p.cow, FALSE, FALSE)
        ELSE
    Bind([w.s EXCEPT !.m_bytes_written_dirty = @ + (to - from)], LAMBDA s3 :
    Bind(WriteSuffix(s3, to, g[2], p.cow), LAMBDA x :
        IF x.aborted \/ x.hang \/ x.ret < 0
        THEN x
        ELSE
    Bind(MarkDirty(x.s, g[1], g[2]), LAMBDA m :
        WriteResult(m.s, w.ret, x.cow, FALSE, m.aborted)))))))

\* the wrapper moving the cursor by count whatever cow_write returned
cow_write_AdvanceByCount(s, buf, count) ==
    Bind([s EXCEPT !.m_bytes_requested_write = @ + count], LAMBDA s1 :
    Bind(cow_write_range(s1, s.m_current_position, s.m_current_position + count, buf),
         LAMBDA r :
        [r EXCEPT !.s = set_position(r.s, r.s.m_current_position + count)]))

\* cow_write(buf, count): the wrapper that works at m_current_position
cow_write(s, buf, count) ==
    Bind([s EXCEPT !.m_bytes_requested_write = @ + count], LAMBDA s1 :
    Bind(cow_write_range(s1, s.m_current_position, s.m_current_position + count, buf),
         LAMBDA r :
        [r EXCEPT !.s = IF r.ret > 0
                        THEN set_position(r.s, r.s.m_current_position + r.ret)
                        ELSE r.s]))

----------------------------------------------------------------------------
(* Construction *)

\* the members before the constructor has run, over the two opened files;
\* NDEBUG: whether the build compiles the assertions out
NewStore(orig_file, dirty_file) ==
    [m_fsfile_orig |-> orig_file,
     m_fsfile_dirty |-> dirty_file,
     m_cow_bitmap |-> <<>>,
     m_bitmap_size |-> 0,
     m_cow_group_count |-> 0,
     m_cow_group_size |-> 0,
     m_cow_group_size_bytes |-> 0,
     m_scsi_block_size |-> 0,
     m_buffer_size |-> 0,
     m_bytes_read_original |-> 0,
     m_bytes_read_dirty |-> 0,
     m_bytes_written_dirty |-> 0,
     m_bytes_requested_read |-> 0,
     m_bytes_requested_write |-> 0,
     m_bytes_read_original_cow |-> 0,
     m_current_position |-> 0,
     NDEBUG |-> FALSE]

\* ImageBackingStore::ImageBackingStore: [s, outcome]; outcome is "ready",
\* "threw" (the overlay could not be extended), "trapped" (division by
\* zero) or "aborted" (assert(m_cow_group_count <= max_groups) failed)
ImageBackingStore(s, bitmap_max_size, buffer_size, scsi_block_size, dz) ==
    Bind(FsOpen(s.m_fsfile_orig), LAMBDA orig :
    Bind(FsWrite(FsSeek(FsOpen(s.m_fsfile_dirty), FsSize(orig) - 1), <<0>>, 1), LAMBDA w :
    Bind([s EXCEPT !.m_scsi_block_size = scsi_block_size,
                   !.m_current_position = 0,
                   !.m_buffer_size = buffer_size,
                   !.m_fsfile_orig = orig,
                   !.m_fsfile_dirty = w.file], LAMBDA s1 :
        IF w.ret # 1
        THEN [s |-> s1, outcome |-> "threw"]
        ELSE
    Bind(Sizing(U32(FsSize(orig) \div scsi_block_size), U32(bitmap_max_size),
                scsi_block_size, dz), LAMBDA sz :
        IF sz.trapped
        THEN [s |-> s1, outcome |-> "trapped"]
        ELSE
    Bind([s1 EXCEPT !.m_cow_group_size = U32Int(sz.m_cow_group_size),
                    !.m_cow_group_size_bytes = U32Int(sz.m_cow_group_size_bytes),
                    !.m_cow_group_count = U32Int(sz.m_cow_group_count)], LAMBDA s2 :
        IF ~sz.assert_ok /\ ~s.NDEBUG
        THEN [s |-> s2, outcome |-> "aborted"]
        ELSE [s |-> resetStats([s2 EXCEPT
                        !.m_bitmap_size = U32Int(sz.m_bitmap_size),
                        !.m_cow_bitmap = NewBitmap(U32Int(sz.m_bitmap_size))]),
              outcome |-> "ready"])))))

----------------------------------------------------------------------------
(* The state machine: one store, built once and then driven by its caller *)

NoSizing == [done |-> FALSE]

NoCall == [op |-> "none", from |-> 0, count |-> 0, ret |-> 0,
           buf |-> <<>>, chunks |-> <<>>, cow |-> <<>>]

ImageSize == FsSize(bs.m_fsfile_orig)

Init ==
    /\ \E size \in ImageSizes :
          /\ bs = NewStore(FsFile(OrigImage(size)), FsFile([i \in 1..size |-> 0]))
          /\ fs = FsFile(OrigImage(size))
    /\ last = NoCall
    /\ hist = [all_ok |-> TRUE, aligned |-> TRUE]
    /\ phase = "new"
    /\ nops = 0
    /\ sizing = NoSizing

Construct(bitmap_max_size, buffer_size, scsi_block_size, dz) ==
    /\ phase = "new"
    /\ LET r == ImageBackingStore(bs, bitmap_max_size, buffer_size, scsi_block_size, dz)
       IN  /\ bs' = r.s
           /\ phase' = r.outcome
    /\ last' = [NoCall EXCEPT !.op = "construct"]
    /\ UNCHANGED <<fs, hist, nops, sizing>>

SetPosition(pos) ==
    /\ phase = "ready"
    /\ nops < MaxOps
    /\ bs' = set_position(bs, pos)
    /\ last' = [NoCall EXCEPT !.op = "set_position", !.from = pos]
    /\ nops' = nops + 1
    /\ UNCHANGED <<fs, hist, phase, sizing>>

CowRead(count) ==
    /\ phase = "ready"
    /\ nops < MaxOps
    /\ LET r == cow_read(bs, count)
       IN  /\ bs' = r.s
           /\ last' = [op |-> "cow_read", from |-> bs.m_current_position,
                       count |-> count, ret |-> r.ret, buf |-> r.buf,
                       chunks |-> r.chunks, cow |-> <<>>]
           /\ phase' = IF r.aborted THEN "aborted" ELSE "ready"
    /\ nops' = nops + 1
    /\ UNCHANGED <<fs, hist, sizing>>

\* cow_test.cpp, one_write: the same buffer goes to fs and to the store
CowWrite(count, tag) ==
    /\ phase = "ready"
    /\ nops < MaxOps
    /\ LET buf == Payload(tag, count)
           from == bs.m_current_position
           r == cow_write(bs, buf, count)
       IN  /\ bs' = r.s
           /\ fs' = FsWrite(FsSeek(fs, from), buf, count).file
           /\ last' = [op |-> "cow_write", from |-> from, count |-> count,
                       ret |-> r.ret, buf |-> buf, chunks |-> <<>>, cow |-> r.cow]
           /\ hist' = [all_ok |-> hist.all_ok /\ r.ret = count,
                       aligned |-> /\ hist.aligned
                                   /\ from % bs.m_scsi_block_size = 0
                                   /\ count % bs.m_scsi_block_size = 0]
           /\ phase' = IF r.aborted THEN "aborted"
                       ELSE IF r.hang THEN "hung" ELSE "ready"
    /\ nops' = nops + 1
    /\ UNCHANGED sizing

Next ==
    \/ \E bm \in BitmapMaxSizes, buf \in BufferSizes, dz \in DivZeroOutcomes :
          \E blk \in {b \in BlockSizes : ImageSize % b = 0} :
             Construct(bm, buf, blk, dz)
    \/ \E pos \in 0..ImageSize : SetPosition(pos)
    \/ \E count \in 1..(ImageSize - bs.m_current_position) : CowRead(count)
    \/ \E count \in 1..(ImageSize - bs.m_current_position), tag \in PayloadTags :
          CowWrite(count, tag)

Spec == Init /\ [][Next]_vars

----------------------------------------------------------------------------
(* Properties of the store.  Ready: the store is built and no call has    *)
(* ended the process.  Groups: the group indices.  LogicalByte(s, x): the  *)
(* byte a read of [x, x + 1) returns.                                      *)

Ready == phase = "ready"

Groups == 0..(bs.m_cow_group_count - 1)

LogicalByte(s, x) == cow_read_range(s, x, x + 1).buf[1]

\* the 0-based byte offsets of group g that lie inside the image
Extent(s, g) ==
    {x \in 0..(FsSize(s.m_fsfile_orig) - 1) :
        /\ x >= offsetFromGroup(s, g)
        /\ x <  offsetFromGroup(s, g + 1)}

\* C1: after any sequence of block-aligned writes, every range of the image
\* reads back through the store as it does from the plain reference image
\* that received the same writes.
C1_RefinementEquivalence ==
    (Ready /\ hist.aligned) =>
        \A from \in 0..(ImageSize - 1) : \A to \in (from + 1)..ImageSize :
            LET r == cow_read_range(bs, from, to)
            IN  /\ r.ret = to - from
                /\ r.buf = SubSeq(fs.m_data, from + 1, to)

\* C2: a read of the range a cow_write has just written returns the payload
\* of that write, for any alignment of the range.
C2_WriteReadRoundTrip ==
    (Ready /\ last.op = "cow_write") =>
        LET r == cow_read_range(bs, last.from, last.from + last.count)
        IN  /\ r.ret = last.count
            /\ r.buf = last.buf

\* C3: a write leaves the logical value of every byte outside its range as
\* it was, the bytes of the partially covered first and last groups that it
\* turns dirty included, and that value stays until a later write covers
\* the byte: reads and seeks change no logical value.
C3_BoundaryPreservation ==
    [][(Ready /\ Ready') =>
        \A x \in 0..(ImageSize - 1) :
            (last'.op = "cow_write" /\ x >= last'.from /\ x < last'.from + last'.count)
            \/ LogicalByte(bs', x) = LogicalByte(bs, x)]_vars

\* a successful write strictly inside one clean group, which promoted the
\* bytes before and the bytes after it
C3_Witness ==
    /\ Ready
    /\ last.op = "cow_write"
    /\ last.ret = last.count
    /\ Len(last.cow) = 2
    /\ groupFromOffset(bs, last.from) = groupFromOffset(bs, last.from + last.count - 1)
    /\ \A i \in 1..2 : last.cow[i].ret = last.cow[i].to - last.cow[i].from

\* C4: in every state reached by successful writes and reads, a dirty group's
\* extent in the overlay and a clean group's extent in the original hold the
\* logical content, and recreate() returns the logical image.
C4_BitmapContentInvariant ==
    (Ready /\ hist.all_ok) =>
        /\ \A g \in Groups : \A x \in Extent(bs, g) :
              IF getGroupImageType(bs, g) = IMG_TYPE_DIRTY
              THEN bs.m_fsfile_dirty.m_data[x + 1] = fs.m_data[x + 1]
              ELSE bs.m_fsfile_orig.m_data[x + 1] = fs.m_data[x + 1]
        /\ recreate(bs) = fs.m_data

\* successful writes have left a dirty and a clean group in an image whose
\* final group is cut short, the last write covering two groups or more
C4_Witness ==
    /\ Ready
    /\ hist.all_ok
    /\ ImageSize % bs.m_cow_group_size_bytes # 0
    /\ last.op = "cow_write"
    /\ groupFromOffset(bs, last.from) < groupFromOffset(bs, last.from + last.count - 1)
    /\ \E g \in Groups : getGroupImageType(bs, g) = IMG_TYPE_DIRTY
    /\ \E g \in Groups : getGroupImageType(bs, g) = IMG_TYPE_ORIG
    /\ fs.m_data # bs.m_fsfile_orig.m_data

\* C5: no operation, failing ones included, turns a dirty group back to
\* original.
C5_PromotionMonotonic ==
    [][\A g \in Groups : BitIsSet(bs, g) => BitIsSet(bs', g)]_vars

\* a write that touches a group that was already dirty, and a failing write
\* on a store with a dirty group
C5_Witness ==
    /\ Ready
    /\ last.op = "cow_write"
    /\ last.ret = last.count
    /\ last.cow = <<>>
    /\ offsetFromGroup(bs, groupFromOffset(bs, last.from)) < last.from
    /\ bs.m_bytes_requested_write > last.count

\* C6: right after construction every group is original, the cursor is 0,
\* the six counters are 0, and a read of the whole image returns the
\* original image.
C6_InitialState ==
    (Ready /\ last.op = "construct") =>
        /\ \A g \in Groups : getGroupImageType(bs, g) = IMG_TYPE_ORIG
        /\ bs.m_current_position = 0
        /\ bs.m_bytes_read_original = 0
        /\ bs.m_bytes_read_dirty = 0
        /\ bs.m_bytes_written_dirty = 0
        /\ bs.m_bytes_requested_read = 0
        /\ bs.m_bytes_requested_write = 0
        /\ bs.m_bytes_read_original_cow = 0
        /\ LET r == cow_read(bs, ImageSize)
           IN  /\ r.ret = ImageSize
               /\ r.buf = OrigImage(ImageSize)

\* a store just built, of several groups of several bytes
C6_Witness ==
    /\ Ready
    /\ last.op = "construct"
    /\ bs.m_cow_group_count > 1
    /\ bs.m_cow_group_size_bytes > 1

\* C7: a cow_read splits its range into consecutive chunks, each lying in
\* groups of one state only, and delivers each chunk's bytes from the
\* overlay when that state is dirty and from the original otherwise, from
\* the offsets they have in the logical image.
C7_ReadRouting ==
    (Ready /\ last.op = "cow_read") =>
        LET cs == last.chunks
        IN  /\ Len(cs) >= 1
            /\ cs[1].from = last.from
            /\ cs[Len(cs)].from + cs[Len(cs)].count = last.from + last.count
            /\ \A i \in 1..(Len(cs) - 1) : cs[i + 1].from = cs[i].from + cs[i].count
            /\ \A i \in 1..Len(cs) :
                  \A x \in cs[i].from..(cs[i].from + cs[i].count - 1) :
                     /\ getGroupImageType(bs, groupFromOffset(bs, x)) = cs[i].src
                     /\ last.buf[x - last.from + 1] =
                           IF cs[i].src = IMG_TYPE_DIRTY
                           THEN bs.m_fsfile_dirty.m_data[x + 1]
                           ELSE bs.m_fsfile_orig.m_data[x + 1]

\* a read across the boundary between a dirty and a clean group
C7_Witness ==
    /\ Ready
    /\ last.op = "cow_read"
    /\ Len(last.chunks) >= 2
    /\ last.chunks[1].src # last.chunks[2].src
    /\ last.ret = last.count

\* C8: no operation changes the original image; an overlay byte changes only
\* in a cow_write, to the payload byte of the same logical offset or to the
\* original's byte of the same offset; a successful write leaves its whole
\* payload, and every completed promotion its whole range, at these offsets.
C8_OriginalNeverModified ==
    [][/\ bs'.m_fsfile_orig.m_data = bs.m_fsfile_orig.m_data
       /\ \A x \in 0..(FsSize(bs.m_fsfile_dirty) - 1) :
             LET InPayload == x >= last'.from /\ x < last'.from + last'.count
                 Promoted == \E i \in 1..Len(last'.cow) :
                                /\ x >= last'.cow[i].from
                                /\ x < last'.cow[i].to
                                /\ (last'.cow[i].ret >= 0 \/ ~InPayload)
                 new == bs'.m_fsfile_dirty.m_data[x + 1]
             IN  IF nops' = nops + 1 /\ last'.op = "cow_write"
                 THEN /\ (new # bs.m_fsfile_dirty.m_data[x + 1]) => (InPayload \/ Promoted)
                      /\ (InPayload /\ last'.ret = last'.count) =>
                            new = last'.buf[x - last'.from + 1]
                      /\ (\E i \in 1..Len(last'.cow) :
                             /\ x >= last'.cow[i].from
                             /\ x < last'.cow[i].to
                             /\ last'.cow[i].ret >= 0) =>
                            new = bs.m_fsfile_orig.m_data[x + 1]
                      /\ (new # bs.m_fsfile_dirty.m_data[x + 1] /\ ~InPayload) =>
                            new = bs.m_fsfile_orig.m_data[x + 1]
                 ELSE new = bs.m_fsfile_dirty.m_data[x + 1]]_vars

\* a write that promoted the bytes before its payload and then failed
C8_Witness ==
    /\ Ready
    /\ last.op = "cow_write"
    /\ last.ret < 0
    /\ Len(last.cow) = 2
    /\ last.cow[1].ret = last.cow[1].to - last.cow[1].from

C17_WriteCounters ==
    [][(nops' = nops + 1 /\ last'.op = "cow_write") =>
        LET cow == last'.cow
            PayloadWritten ==
                IF \E i \in 1..Len(cow) : cow[i].to = last'.from /\ cow[i].ret < 0
                THEN 0 ELSE last'.count
            Copied(i) == IF i <= Len(cow) /\ cow[i].ret > 0 THEN cow[i].ret ELSE 0
            Promoted == Copied(1) + Copied(2)
        IN  /\ bs'.m_bytes_requested_write = bs.m_bytes_requested_write + last'.count
            /\ bs'.m_bytes_read_original_cow = bs.m_bytes_read_original_cow + Promoted
            /\ bs'.m_bytes_written_dirty = bs.m_bytes_written_dirty + PayloadWritten]_vars

\* C18: a cow_write makes at most two promotion copies, a prefix in its
\* first group and a suffix in its last group, none of them over a byte of
\* [from, to) or of a group in between, and they copy fewer than
\* 2 * m_cow_group_size_bytes bytes together.
C18_BoundedAmplification ==
    [][(nops' = nops + 1 /\ last'.op = "cow_write") =>
        LET cow == last'.cow
            from == last'.from
            to == last'.from + last'.count
            first_group == groupFromOffset(bs, from)
            last_group == groupFromOffset(bs, to - 1)
        IN  /\ Len(cow) <= 2
            /\ \A i \in 1..Len(cow) :
                  /\ cow[i].from < cow[i].to
                  /\ \/ /\ cow[i].to = from
                        /\ cow[i].from = offsetFromGroup(bs, first_group)
                     \/ /\ cow[i].from = to
                        /\ cow[i].to = offsetFromGroup(bs, last_group + 1)
            /\ Len(cow) = 2 => (cow[1].to = from /\ cow[2].from = to)
            /\ bs'.m_bytes_read_original_cow - bs.m_bytes_read_original_cow
                  < 2 * bs.m_cow_group_size_bytes
            /\ \A x \in 0..(ImageSize - 1) :
                  (x >= offsetFromGroup(bs, first_group + 1)
                     /\ x < offsetFromGroup(bs, last_group)) =>
                        \A i \in 1..Len(cow) : ~(x >= cow[i].from /\ x < cow[i].to)]_vars

\* a write over three groups or more that promoted a prefix and a suffix
C18_Witness ==
    /\ Ready
    /\ last.op = "cow_write"
    /\ last.ret = last.count
    /\ Len(last.cow) = 2
    /\ groupFromOffset(bs, last.from + last.count - 1) >= groupFromOffset(bs, last.from) + 2
    /\ bs.m_bytes_read_original_cow > 0

\* C19: a cow_read over k groups makes at most k cow_read_single calls, one
\* for each maximal run of consecutive groups in the same state, so two
\* consecutive calls never read from the same source.
C19_BoundedReadCalls ==
    (Ready /\ last.op = "cow_read") =>
        LET cs == last.chunks
            first_group == groupFromOffset(bs, last.from)
            last_group == groupFromOffset(bs, last.from + last.count - 1)
            Changes == {g \in first_group..(last_group - 1) :
                          getGroupImageType(bs, g) # getGroupImageType(bs, g + 1)}
        IN  /\ Len(cs) <= last_group - first_group + 1
            /\ Len(cs) = Cardinality(Changes) + 1
            /\ \A i \in 1..(Len(cs) - 1) : cs[i].src # cs[i + 1].src

\* a read over three groups or more made in two calls
C19_Witness ==
    /\ Ready
    /\ last.op = "cow_read"
    /\ Len(last.chunks) = 2
    /\ groupFromOffset(bs, last.from + last.count - 1) >= groupFromOffset(bs, last.from) + 2

\* C20: after a successful cow_write over [from, to) every group from the
\* group of from to the group of to - 1 is dirty and every other group is
\* in the state it had before the call.
C20_DirtyMarkingExact ==
    [][(nops' = nops + 1 /\ last'.op = "cow_write" /\ last'.ret = last'.count) =>
        \A g \in Groups :
            IF /\ g >= groupFromOffset(bs, last'.from)
               /\ g <= groupFromOffset(bs, last'.from + last'.count - 1)
            THEN getGroupImageType(bs', g) = IMG_TYPE_DIRTY
            ELSE getGroupImageType(bs', g) = getGroupImageType(bs, g)]_vars

\* a successful write over two groups or more that left, outside them, a
\* group that was dirty before and a group still clean
C20_Witness ==
    /\ Ready
    /\ last.op = "cow_write"
    /\ last.ret = last.count
    /\ groupFromOffset(bs, last.from) < groupFromOffset(bs, last.from + last.count - 1)
    /\ \E g \in Groups : /\ g < groupFromOffset(bs, last.from)
                         /\ getGroupImageType(bs, g) = IMG_TYPE_DIRTY
    /\ \E g \in Groups : /\ g > groupFromOffset(bs, last.from + last.count - 1)
                         /\ getGroupImageType(bs, g) = IMG_TYPE_ORIG

\* C23: a cow_write whose last group is the final group, cut short by the
\* end of the image and still Original, succeeds: it returns the payload
\* length, the suffix it promotes is [to, end of the image) (none when the
\* write ends with the image) and the final group is dirty afterwards.
C23_TruncatedFinalGroupWrite ==
    [][(/\ nops' = nops + 1
        /\ last'.op = "cow_write"
        /\ groupFromOffset(bs, last'.from + last'.count - 1) = bs.m_cow_group_count - 1
        /\ offsetFromGroup(bs, bs.m_cow_group_count) > ImageSize
        /\ getGroupImageType(bs, bs.m_cow_group_count - 1) = IMG_TYPE_ORIG) =>
            LET cow == last'.cow
                to == last'.from + last'.count
            IN  /\ phase' = "ready"
                /\ last'.ret = last'.count
                /\ getGroupImageType(bs', bs.m_cow_group_count - 1) = IMG_TYPE_DIRTY
                /\ \A i \in 1..Len(cow) :
                      cow[i].from = to => (cow[i].to = ImageSize /\ cow[i].ret = ImageSize - to)
                /\ (to < ImageSize) = (\E i \in 1..Len(cow) : cow[i].from = to)]_vars

\* C27: a cow_write that returns an error leaves the logical image as it
\* was: every range of the image reads after the call as it read before
\* it, also where the range of the write lies in groups already dirty.
C27_FailureAtomicity ==
    [][(/\ nops' = nops + 1
        /\ last'.op = "cow_write"
        /\ phase' = "ready"
        /\ last'.ret < 0) =>
            \A from \in 0..(ImageSize - 1) : \A to \in (from + 1)..ImageSize :
                LET before == cow_read_range(bs, from, to)
                    after == cow_read_range(bs', from, to)
                IN  /\ after.ret = before.ret
                    /\ after.buf = before.buf]_vars

\* C22: every promotion of a cow_write copies into a group that is
\* Original when the call is made, and an overlay byte of a group that is
\* dirty changes only by taking the payload byte written at its offset.
C22_NoPromotionIntoDirty ==
    [][Ready =>
        /\ (nops' = nops + 1 /\ last'.op = "cow_write") =>
              \A i \in 1..Len(last'.cow) :
                  \A x \in last'.cow[i].from..(last'.cow[i].to - 1) :
                      /\ groupFromOffset(bs, x) \in Groups
                      /\ getGroupImageType(bs, groupFromOffset(bs, x)) = IMG_TYPE_ORIG
        /\ \A x \in 0..(ImageSize - 1) :
              (/\ getGroupImageType(bs, groupFromOffset(bs, x)) = IMG_TYPE_DIRTY
               /\ bs'.m_fsfile_dirty.m_data[x + 1] # bs.m_fsfile_dirty.m_data[x + 1]) =>
                  /\ last'.op = "cow_write"
                  /\ x >= last'.from
                  /\ x < last'.from + last'.count
                  /\ bs'.m_fsfile_dirty.m_data[x + 1] = last'.buf[x - last'.from + 1]]_vars

\* a successful write that starts inside a dirty group, after a byte of
\* the overlay that differs from the original's, and promotes no prefix
C22_Witness ==
    /\ Ready
    /\ last.op = "cow_write"
    /\ last.ret = last.count
    /\ last.from > offsetFromGroup(bs, groupFromOffset(bs, last.from))
    /\ \A i \in 1..Len(last.cow) : last.cow[i].to # last.from
    /\ bs.m_fsfile_dirty.m_data[last.from] # bs.m_fsfile_orig.m_data[last.from]

\* C24: every performCopyOnWrite(from_offset, to_offset) call that a
\* cow_write over a non-empty range inside the image makes has
\* from_offset < to_offset and from_offset and to_offset - 1 in the same
\* group, so that its assertion holds.
C24_PromotionPrecondition ==
    [][(nops' = nops + 1 /\ last'.op = "cow_write") =>
        /\ phase' # "aborted"
        /\ \A i \in 1..Len(last'.cow) :
              /\ last'.cow[i].from < last'.cow[i].to
              /\ groupFromOffset(bs, last'.cow[i].from)
                    = groupFromOffset(bs, last'.cow[i].to - 1)]_vars

\* a write over two groups that promoted a prefix in the first and a
\* suffix in the second, each through more than one round of the buffer
C24_Witness ==
    /\ Ready
    /\ last.op = "cow_write"
    /\ Len(last.cow) = 2
    /\ groupFromOffset(bs, last.from) + 1 = groupFromOffset(bs, last.from + last.count - 1)
    /\ \A i \in 1..2 : last.cow[i].ret = last.cow[i].to - last.cow[i].from
    /\ \A i \in 1..2 : last.cow[i].ret > bs.m_buffer_size

----------------------------------------------------------------------------
(* The store driven by requests that may start at or reach past the end of *)
(* the image, built with the assertions (make debug) or without them       *)
(* (-DNDEBUG, the default build).  Overrun keeps every group index of these *)
(* requests inside the bytes allocated for the bitmap.                     *)

InitBounds ==
    /\ \E size \in ImageSizes, ndebug \in BOOLEAN :
          /\ bs = [NewStore(FsFile(OrigImage(size)), FsFile([i \in 1..size |-> 0]))
                      EXCEPT !.NDEBUG = ndebug]
          /\ fs = FsFile(OrigImage(size))
    /\ last = NoCall
    /\ hist = [all_ok |-> TRUE, aligned |-> TRUE]
    /\ phase = "new"
    /\ nops = 0
    /\ sizing = NoSizing

NextBounds ==
    \/ \E bm \in BitmapMaxSizes, buf \in BufferSizes, dz \in DivZeroOutcomes :
          \E blk \in {b \in BlockSizes : ImageSize % b = 0} :
             Construct(bm, buf, blk, dz)
    \/ \E pos \in 0..(ImageSize + Overrun - 1) : SetPosition(pos)
    \/ \E count \in 1..(ImageSize + Overrun - bs.m_current_position) : CowRead(count)
    \/ \E count \in 1..(ImageSize + Overrun - bs.m_current_position), tag \in PayloadTags :
          CowWrite(count, tag)

SpecBounds == InitBounds /\ [][NextBounds]_vars

\* C13: when the overlay takes fewer bytes than the payload holds, a
\* positive number of them included, cow_write returns that number at once:
\* it makes no suffix promotion and marks no group dirty.
C13_ShortWriteAborts ==
    [][(nops' = nops + 1 /\ last'.op = "cow_write") =>
        LET from == last'.from
            to == last'.from + last'.count
            prefix == WritePrefix(bs, from, groupFromOffset(bs, from))
            accepted == FsWrite(FsSeek(bs.m_fsfile_dirty, from), last'.buf, last'.count).ret
        IN  (~prefix.aborted /\ prefix.ret >= 0 /\ accepted < last'.count) =>
                /\ phase' = "ready"
                /\ last'.ret = accepted
                /\ \A i \in 1..Len(last'.cow) : last'.cow[i].from # to
                /\ bs'.m_cow_bitmap = bs.m_cow_bitmap]_vars

\* C14: in cow_read, once a cow_read_single call returns fewer bytes than
\* its chunk holds (none, or some of them), no further call is made and
\* cow_read returns the bytes read so far, which fill the start of the
\* caller's buffer with the logical bytes from the range's lower bound on.
C14_ShortReadStops ==
    (last.op = "cow_read" /\ \E i \in 1..Len(last.chunks) :
                                last.chunks[i].ret < last.chunks[i].count) =>
        LET cs == last.chunks
        IN  /\ phase = "ready"
            /\ \A i \in 1..(Len(cs) - 1) : cs[i].ret = cs[i].count
            /\ \A i \in 1..Len(last.buf) :
                  IF i <= last.ret
                  THEN last.buf[i] =
                         IF getGroupImageType(bs, groupFromOffset(bs, last.from + i - 1))
                               = IMG_TYPE_DIRTY
                         THEN bs.m_fsfile_dirty.m_data[last.from + i]
                         ELSE bs.m_fsfile_orig.m_data[last.from + i]
                  ELSE last.buf[i] = Unfilled

\* C15: a cow_read or cow_write whose range starts at or reaches past the
\* end of the image comes back with an error: no assertion fails, no bit
\* outside the groups is read or set, and the overlay, the bitmap and the
\* cursor stay as they were.
C15_BoundsRejected ==
    [][(/\ nops' = nops + 1
        /\ last'.op \in {"cow_read", "cow_write"}
        /\ last'.from + last'.count > ImageSize) =>
            /\ phase' = "ready"
            /\ last'.ret < 0
            /\ bs'.m_fsfile_dirty.m_data = bs.m_fsfile_dirty.m_data
            /\ bs'.m_cow_bitmap = bs.m_cow_bitmap
            /\ bs'.m_current_position = bs.m_current_position]_vars

\* C16: a cow_read adds the requested length to m_bytes_requested_read
\* once, and adds to m_bytes_read_original and m_bytes_read_dirty the
\* bytes it transferred from the original and from the overlay.
C16_ReadCounters ==
    [][(nops' = nops + 1 /\ last'.op = "cow_read" /\ phase' = "ready") =>
        LET cs == last'.chunks
            From[n \in 0..Len(cs)] ==
                IF n = 0 THEN [orig |-> 0, dirty |-> 0]
                ELSE IF cs[n].ret <= 0 THEN From[n - 1]
                ELSE IF cs[n].src = IMG_TYPE_DIRTY
                THEN [From[n - 1] EXCEPT !.dirty = @ + cs[n].ret]
                ELSE [From[n - 1] EXCEPT !.orig = @ + cs[n].ret]
        IN  /\ bs'.m_bytes_requested_read = bs.m_bytes_requested_read + last'.count
            /\ bs'.m_bytes_read_original = bs.m_bytes_read_original + From[Len(cs)].orig
            /\ bs'.m_bytes_read_dirty = bs.m_bytes_read_dirty + From[Len(cs)].dirty
            /\ last'.ret = From[Len(cs)].orig + From[Len(cs)].dirty]_vars

----------------------------------------------------------------------------
(* The store over an image whose size is no multiple of every block size   *)
(* tried, driven by requests inside the image, in both builds              *)

RaggedSizes == {7}

InitRagged ==
    /\ \E size \in RaggedSizes, ndebug \in BOOLEAN :
          /\ bs = [NewStore(FsFile(OrigImage(size)), FsFile([i \in 1..size |-> 0]))
                      EXCEPT !.NDEBUG = ndebug]
          /\ fs = FsFile(OrigImage(size))
    /\ last = NoCall
    /\ hist = [all_ok |-> TRUE, aligned |-> TRUE]
    /\ phase = "new"
    /\ nops = 0
    /\ sizing = NoSizing

NextRagged ==
    \/ \E bm \in BitmapMaxSizes, buf \in BufferSizes, dz \in DivZeroOutcomes :
          \E blk \in BlockSizes : Construct(bm, buf, blk, dz)
    \/ \E pos \in 0..ImageSize : SetPosition(pos)
    \/ \E count \in 1..(ImageSize - bs.m_current_position) : CowRead(count)
    \/ \E count \in 1..(ImageSize - bs.m_current_position), tag \in PayloadTags :
          CowWrite(count, tag)

SpecRagged == InitRagged /\ [][NextRagged]_vars

\* C28: a cow_read or cow_write over a non-empty range that ends at or
\* before the end of the image passes only group indices below
\* m_cow_group_count to getGroupImageType and setGroupImageType, so that no
\* bounds assertion fails, whatever the image size is a multiple of.
C28_InRangeStaysInBounds ==
    [][(/\ nops' = nops + 1
        /\ last'.op \in {"cow_read", "cow_write"}
        /\ last'.from + last'.count <= ImageSize) =>
            /\ phase' # "aborted"
            /\ \A x \in last'.from..(last'.from + last'.count - 1) :
                  GroupInRange(bs, groupFromOffset(bs, x))]_vars

\* C30: a cow_read over a range inside the image comes back, and each round
\* of its loop reads a chunk that is not empty and starts where the chunk
\* before it ended, so that it makes at most one round for each group of
\* the range.
C30_ReadProgress ==
    (last.op = "cow_read" /\ last.from + last.count <= ImageSize) =>
        LET cs == last.chunks
        IN  /\ phase = "ready"
            /\ Len(cs) >= 1
            /\ cs[1].from = last.from
            /\ \A i \in 1..Len(cs) : cs[i].count > 0
            /\ \A i \in 1..(Len(cs) - 1) : cs[i + 1].from = cs[i].from + cs[i].count
            /\ Len(cs) <= groupFromOffset(bs, last.from + last.count - 1)
                             - groupFromOffset(bs, last.from) + 1

----------------------------------------------------------------------------
(* The store over files that come up short: after construction the test    *)
(* interface (getOriginalFile(), getDirtyFile(), FsFile::resize) cuts the   *)
(* original or the overlay, so that reads and writes past the cut return    *)
(* fewer bytes than asked.  Requests stay inside the image as the          *)
(* reference copy fs has it.                                               *)

\* getOriginalFile().resize(new_size)
ResizeOrig(new_size) ==
    /\ phase = "ready"
    /\ nops < MaxOps
    /\ bs' = [bs EXCEPT !.m_fsfile_orig = FsResize(@, new_size)]
    /\ last' = [NoCall EXCEPT !.op = "resize_orig", !.count = new_size]
    /\ nops' = nops + 1
    /\ UNCHANGED <<fs, hist, phase, sizing>>

\* getDirtyFile().resize(new_size)
ResizeDirty(new_size) ==
    /\ phase = "ready"
    /\ nops < MaxOps
    /\ bs' = [bs EXCEPT !.m_fsfile_dirty = FsResize(@, new_size)]
    /\ last' = [NoCall EXCEPT !.op = "resize_dirty", !.count = new_size]
    /\ nops' = nops + 1
    /\ UNCHANGED <<fs, hist, phase, sizing>>

NextFaults ==
    \/ \E bm \in BitmapMaxSizes, buf \in BufferSizes, dz \in DivZeroOutcomes :
          \E blk \in {b \in BlockSizes : FsSize(fs) % b = 0} :
             Construct(bm, buf, blk, dz)
    \/ \E new_size \in 1..(FsSize(fs) - 1) : ResizeOrig(new_size)
    \/ \E new_size \in 1..(FsSize(fs) - 1) : ResizeDirty(new_size)
    \/ \E pos \in 0..FsSize(fs) : SetPosition(pos)
    \/ \E count \in 1..(FsSize(fs) - bs.m_current_position) : CowRead(count)
    \/ \E count \in 1..(FsSize(fs) - bs.m_current_position), tag \in PayloadTags :
          CowWrite(count, tag)

SpecFaults == Init /\ [][NextFaults]_vars

\* C25: when the promotion of the bytes before the payload fails on a
\* short read or a short write, cow_write returns a negative value at
\* once: it writes no payload byte, makes no other promotion, changes no
\* bit of the bitmap and leaves the cursor where it was; the overlay
\* differs from before at most in the bytes the promotion was copying.
C25_PrefixPromotionFailure ==
    [][(/\ nops' = nops + 1
        /\ last'.op = "cow_write"
        /\ \E i \in 1..Len(last'.cow) :
              last'.cow[i].to = last'.from /\ last'.cow[i].ret < 0) =>
            LET before == bs.m_fsfile_dirty.m_data
                after == bs'.m_fsfile_dirty.m_data
            IN  /\ phase' = "ready"
                /\ last'.ret < 0
                /\ Len(last'.cow) = 1
                /\ Len(after) = Len(before)
                /\ \A x \in 0..(Len(before) - 1) :
                      (x < last'.cow[1].from \/ x >= last'.from) =>
                          after[x + 1] = before[x + 1]
                /\ bs'.m_cow_bitmap = bs.m_cow_bitmap
                /\ bs'.m_current_position = bs.m_current_position
                /\ bs'.m_bytes_requested_write = bs.m_bytes_requested_write + last'.count]_vars

\* the first write made, whose prefix promotion copied a first chunk and
\* failed on a later one
C25_Witness ==
    /\ Ready
    /\ last.op = "cow_write"
    /\ last.ret < 0
    /\ Len(last.cow) = 1
    /\ last.cow[1].to = last.from
    /\ bs.m_bytes_requested_write = last.count
    /\ bs.m_bytes_written_dirty > 0
    /\ bs.m_cow_bitmap = NewBitmap(bs.m_bitmap_size)


\* C21: performCopyOnWrite leaves the bitmap as it was, and a cow_write
\* sets no bit before its prefix promotion, its payload write and its
\* suffix promotion have completed: a call that fails sets no bit, and
\* for every group the call marks Dirty the overlay holds, over the whole
\* group, the payload inside [from, to) and the original bytes outside.
C21_OrderingOfMarking ==
    [][(/\ nops' = nops + 1
        /\ last'.op = "cow_write") =>
            LET from == last'.from
                to == last'.from + last'.count
                g1 == groupFromOffset(bs, from)
                g2 == groupFromOffset(bs, to - 1)
                overlay == bs'.m_fsfile_dirty.m_data
                marked == {g \in Groups :
                              /\ getGroupImageType(bs, g) = IMG_TYPE_ORIG
                              /\ getGroupImageType(bs', g) = IMG_TYPE_DIRTY}
            IN  /\ from > offsetFromGroup(bs, g1) =>
                      performCopyOnWrite(bs, offsetFromGroup(bs, g1), from).s.m_cow_bitmap
                          = bs.m_cow_bitmap
                /\ last'.ret < 0 => bs'.m_cow_bitmap = bs.m_cow_bitmap
                /\ \A g \in marked :
                      \A x \in offsetFromGroup(bs, g)..
                                  (Min(offsetFromGroup(bs, g + 1), FsSize(fs)) - 1) :
                          /\ x < Len(overlay)
                          /\ overlay[x + 1] = IF x >= from /\ x < to
                                              THEN last'.buf[x - from + 1]
                                              ELSE OrigImage(FsSize(fs))[x + 1]]_vars

\* C26: when the payload of a cow_write was written in full and the
\* promotion of the bytes after it fails, cow_write returns a negative
\* value; the overlay holds the payload at [from, to) and, before it, the
\* original bytes the prefix promotion copied; the call sets no bit.
C26_SuffixPromotionFailure ==
    [][(/\ nops' = nops + 1
        /\ last'.op = "cow_write"
        /\ Len(bs.m_fsfile_dirty.m_data) >= last'.from + last'.count
        /\ \E i \in 1..Len(last'.cow) :
              /\ last'.cow[i].from = last'.from + last'.count
              /\ last'.cow[i].ret < 0) =>
            LET from == last'.from
                to == last'.from + last'.count
                overlay == bs'.m_fsfile_dirty.m_data
            IN  /\ phase' = "ready"
                /\ last'.ret < 0
                /\ \A x \in from..(to - 1) : overlay[x + 1] = last'.buf[x - from + 1]
                /\ \A i \in 1..Len(last'.cow) :
                      last'.cow[i].to = from =>
                          /\ last'.cow[i].ret = from - last'.cow[i].from
                          /\ \A x \in last'.cow[i].from..(from - 1) :
                                overlay[x + 1] = bs.m_fsfile_orig.m_data[x + 1]
                /\ bs'.m_cow_bitmap = bs.m_cow_bitmap]_vars

\* a write whose prefix promotion and payload went through and whose
\* suffix promotion failed
C26_Witness ==
    /\ Ready
    /\ last.op = "cow_write"
    /\ last.ret < 0
    /\ Len(last.cow) = 2
    /\ last.cow[1].ret > 0
    /\ last.cow[2].from = last.from + last.count
    /\ last.cow[2].ret < 0
    /\ Len(bs.m_fsfile_dirty.m_data) >= last.from + last.count
    /\ \A x \in last.from..(last.from + last.count - 1) :
          bs.m_fsfile_dirty.m_data[x + 1] = last.buf[x - last.from + 1]

----------------------------------------------------------------------------
(* performCopyOnWrite on its own: the store is built, its files may have   *)
(* been cut short, and the promoter is applied to a range inside one group *)

Promote(from_offset, to_offset) ==
    /\ phase = "ready"
    /\ nops < MaxOps
    /\ LET r == performCopyOnWrite(bs, from_offset, to_offset)
       IN  /\ bs' = r.s
           /\ last' = [NoCall EXCEPT !.op = "performCopyOnWrite",
                                     !.from = from_offset,
                                     !.count = to_offset - from_offset,
                                     !.ret = r.ret,
                                     !.chunks = r.pairs]
           /\ phase' = IF r.aborted THEN "aborted"
                       ELSE IF r.hang THEN "hung" ELSE "ready"
    /\ nops' = nops + 1
    /\ UNCHANGED <<fs, hist, sizing>>

NextPromoter ==
    \/ \E bm \in BitmapMaxSizes, buf \in BufferSizes, dz \in DivZeroOutcomes :
          \E blk \in {b \in BlockSizes : FsSize(fs) % b = 0} :
             Construct(bm, buf, blk, dz)
    \/ \E new_size \in 1..(FsSize(fs) - 1) : ResizeOrig(new_size)
    \/ \E new_size \in 1..(FsSize(fs) - 1) : ResizeDirty(new_size)
    \/ \E g \in Groups :
          \E from_offset \in offsetFromGroup(bs, g)..(offsetFromGroup(bs, g + 1) - 1) :
             \E to_offset \in (from_offset + 1)..offsetFromGroup(bs, g + 1) :
                Promote(from_offset, to_offset)

SpecPromoter == Init /\ [][NextPromoter]_vars

\* C29: performCopyOnWrite over a range of L bytes, with m_buffer_size
\* B >= 1, makes its rounds one after the other, each of min(B, remaining)
\* bytes and each a read followed by a write, a complete round i at the
\* offset from + (i - 1) * B of both files;
\* when every round is complete there are ceil(L / B) of them, it returns
\* L and the overlay equals the original over the range; the first short
\* read or short write is the last round and it returns a negative value
\* (after a short read no write is made).
C29_PromoterChunking ==
    (last.op = "performCopyOnWrite" /\ bs.m_buffer_size >= 1) =>
        LET L == last.count
            B == bs.m_buffer_size
            pairs == last.chunks
            n == Len(pairs)
            Complete(i) == /\ pairs[i].bytes_read = pairs[i].chunk_size
                           /\ pairs[i].bytes_written = pairs[i].chunk_size
        IN  /\ phase = "ready"
            /\ n >= 1
            /\ n <= (L + B - 1) \div B
            /\ \A i \in 1..n :
                  /\ pairs[i].chunk_size = Min(B, L - (i - 1) * B)
                  /\ i < n => Complete(i)
                  /\ Complete(i) =>
                        /\ pairs[i].at_orig = last.from + (i - 1) * B
                        /\ pairs[i].at_dirty = last.from + (i - 1) * B
                  /\ pairs[i].bytes_read # pairs[i].chunk_size =>
                        pairs[i].bytes_written = NotCalled
            /\ IF Complete(n)
               THEN /\ n = (L + B - 1) \div B
                    /\ last.ret = L
                    /\ \A x \in last.from..(last.from + L - 1) :
                          bs.m_fsfile_dirty.m_data[x + 1] = bs.m_fsfile_orig.m_data[x + 1]
               ELSE last.ret < 0

\* a promotion of several rounds that failed on a short write in its
\* second round, after a complete first round
C29_Witness ==
    /\ last.op = "performCopyOnWrite"
    /\ bs.m_buffer_size >= 1
    /\ last.count > 2 * bs.m_buffer_size
    /\ Len(last.chunks) = 2
    /\ last.chunks[2].bytes_read = last.chunks[2].chunk_size
    /\ last.chunks[2].bytes_written >= 0
    /\ last.chunks[2].bytes_written < last.chunks[2].chunk_size
    /\ last.ret < 0

----------------------------------------------------------------------------
(* The store built with any buffer_size the constructor takes, the empty   *)
(* buffer included                                                         *)

AcceptedBufferSizes == {0} \cup BufferSizes

NextCapacity ==
    \/ \E bm \in BitmapMaxSizes, buf \in AcceptedBufferSizes, dz \in DivZeroOutcomes :
          \E blk \in {b \in BlockSizes : ImageSize % b = 0} :
             Construct(bm, buf, blk, dz)
    \/ \E pos \in 0..ImageSize : SetPosition(pos)
    \/ \E count \in 1..(ImageSize - bs.m_current_position) : CowRead(count)
    \/ \E count \in 1..(ImageSize - bs.m_current_position), tag \in PayloadTags :
          CowWrite(count, tag)

SpecCapacity == Init /\ [][NextCapacity]_vars

\* C31: every cow_write, with the promotions it makes, comes back with a
\* byte count or an error, whatever buffer_size the store was built with
\* (0 included): no call stays in the copy loop for ever.
C31_PromotionTermination ==
    [][(nops' = nops + 1 /\ last'.op = "cow_write") => phase' # "hung"]_vars

\* C32: a cow_read, whether it returns the whole count, fewer bytes or an
\* error, leaves every bit of the bitmap and every byte of the overlay and
\* of the original as they were; of the members of the store it changes
\* only m_current_position and the read counters (and where the two files
\* stand, which every later access sets again with seek).
C32_ReadChangesNoData ==
    [][(nops' = nops + 1 /\ last'.op = "cow_read") =>
            /\ bs'.m_cow_bitmap = bs.m_cow_bitmap
            /\ bs'.m_fsfile_dirty.m_data = bs.m_fsfile_dirty.m_data
            /\ bs'.m_fsfile_orig.m_data = bs.m_fsfile_orig.m_data
            /\ [bs' EXCEPT !.m_current_position = 0,
                           !.m_bytes_requested_read = 0,
                           !.m_bytes_read_original = 0,
                           !.m_bytes_read_dirty = 0,
                           !.m_fsfile_orig = bs.m_fsfile_orig,
                           !.m_fsfile_dirty = bs.m_fsfile_dirty]
                 = [bs EXCEPT !.m_current_position = 0,
                              !.m_bytes_requested_read = 0,
                              !.m_bytes_read_original = 0,
                              !.m_bytes_read_dirty = 0]]_vars

\* a read that came back short after it took bytes from the overlay and
\* from the original
C32_Witness ==
    /\ Ready
    /\ last.op = "cow_read"
    /\ last.ret < last.count
    /\ bs.m_bytes_read_dirty > 0
    /\ bs.m_bytes_read_original > 0
    /\ bs.m_cow_bitmap # NewBitmap(bs.m_bitmap_size)

----------------------------------------------------------------------------
(* The store driven by writes of any length inside the image, the empty    *)
(* write included                                                          *)

NextEmptyWrite ==
    \/ \E bm \in BitmapMaxSizes, buf \in BufferSizes, dz \in DivZeroOutcomes :
          \E blk \in {b \in BlockSizes : ImageSize % b = 0} :
             Construct(bm, buf, blk, dz)
    \/ \E pos \in 0..(ImageSize - 1) : SetPosition(pos)
    \/ \E count \in 1..(ImageSize - bs.m_current_position) : CowRead(count)
    \/ \E count \in 0..(ImageSize - bs.m_current_position), tag \in PayloadTags :
          CowWrite(count, tag)

SpecEmptyWrite == Init /\ [][NextEmptyWrite]_vars

\* C34: a cow_write of 0 bytes, wherever the cursor stands before the end
\* of the image, returns 0, makes no promotion, and leaves the bitmap, the bytes
\* of the overlay, the cursor and every counter as they were
\* (m_bytes_requested_write has 0 added).
C34_EmptyWriteIsNoOp ==
    [][(/\ nops' = nops + 1
        /\ last'.op = "cow_write"
        /\ last'.count = 0
        /\ last'.from < ImageSize) =>
            /\ phase' = "ready"
            /\ last'.ret = 0
            /\ last'.cow = <<>>
            /\ bs'.m_fsfile_dirty.m_data = bs.m_fsfile_dirty.m_data
            /\ [bs' EXCEPT !.m_fsfile_orig = bs.m_fsfile_orig,
                           !.m_fsfile_dirty = bs.m_fsfile_dirty] = bs]_vars
----------------------------------------------------------------------------
(* The sizing arithmetic of the constructor on its own, over block counts  *)
(* up to the largest uint32_t                                              *)

SizingSectors ==
    {U32(n) : n \in 1..MaxSectors} \cup {U32Sub(U32Max, U32(k)) : k \in 0..(MaxTop - 1)}

InitSizing ==
    /\ \E total_sectors \in SizingSectors, bitmap_max_size \in 1..MaxBitmap :
          sizing = [done |-> FALSE, total_sectors |-> total_sectors,
                    bitmap_max_size |-> bitmap_max_size]
    /\ bs = NewStore(FsFile(<<>>), FsFile(<<>>))
    /\ fs = FsFile(<<>>)
    /\ last = NoCall
    /\ hist = [all_ok |-> TRUE, aligned |-> TRUE]
    /\ phase = "sizing"
    /\ nops = 0

\* lines 34-48 of the constructor, for one block size (which only scales
\* m_cow_group_size_bytes)
SizingStep(dz) ==
    /\ phase = "sizing"
    /\ ~sizing.done
    /\ sizing' = [done |-> TRUE, total_sectors |-> sizing.total_sectors,
                  bitmap_max_size |-> sizing.bitmap_max_size,
                  r |-> Sizing(sizing.total_sectors, U32(sizing.bitmap_max_size), 1, dz)]
    /\ UNCHANGED <<bs, fs, last, hist, phase, nops>>

NextSizing == \E dz \in DivZeroOutcomes : SizingStep(dz)

SpecSizing == InitSizing /\ [][NextSizing]_vars

\* C10: for every block count >= 1 and every bitmap capacity >= 1 byte the
\* sizing ends with at most capacity * 8 groups, with every block in a
\* group (group count * group size >= block count), and with a bitmap of at
\* most capacity bytes.
C10_SizingBound ==
    sizing.done =>
        /\ ~sizing.r.trapped
        /\ sizing.r.m_cow_group_size # U32Zero
        /\ U32Leq(sizing.r.m_cow_group_count, U32(sizing.bitmap_max_size * 8))
        /\ U32Less(U32Div(U32Sub(sizing.total_sectors, U32(1)), sizing.r.m_cow_group_size),
                   sizing.r.m_cow_group_count)
        /\ U32Leq(sizing.r.m_bitmap_size, U32(sizing.bitmap_max_size))

\* C11: the group size the constructor chooses is the smallest positive
\* number of blocks per group with which capacity * 8 groups reach every
\* block: ceil(blocks / size) <= capacity * 8, and no smaller positive size
\* does that.
C11_SizingMinimal ==
    sizing.done =>
        LET last_block == U32Sub(sizing.total_sectors, U32(1))
            max_groups == U32(sizing.bitmap_max_size * 8)
            gs == sizing.r.m_cow_group_size
        IN  /\ gs # U32Zero
            /\ U32Less(U32Div(last_block, gs), max_groups)
            /\ gs = U32(1) \/ ~U32Less(U32Div(last_block, U32Sub(gs, U32(1))), max_groups)

----------------------------------------------------------------------------
(* The store at its default parameters (bitmap 1024 bytes, blocks of 512   *)
(* bytes) over an image of 81920 blocks.  The two files are held up to     *)
(* the end of sector WindowSectors - 1; the calls made here stay in the    *)
(* groups 2 and 3, well before that sector, so that no call sees where     *)
(* the held part ends.  hist keeps the record of the write.                *)

DefaultBitmapSize == 1024
DefaultBufferSize == 2048
DefaultBlockSize == 512

ScenarioSectors == 160 * DefaultBlockSize

WindowSectors == 50
WriteSectors == 6

ScenarioBuffers == {DefaultBlockSize, DefaultBufferSize}
ScenarioTags == {100000}

WindowBytes == WindowSectors * DefaultBlockSize

\* the constructor over an image of ScenarioSectors sectors
ScenarioStore(s, bitmap_max_size, buffer_size, scsi_block_size, dz) ==
    Bind(Sizing(U32(ScenarioSectors), U32(bitmap_max_size), scsi_block_size, dz),
         LAMBDA sz :
        [s |-> resetStats([s EXCEPT
                   !.m_scsi_block_size = scsi_block_size,
                   !.m_current_position = 0,
                   !.m_buffer_size = buffer_size,
                   !.m_fsfile_orig = FsOpen(s.m_fsfile_orig),
                   !.m_fsfile_dirty = FsOpen(s.m_fsfile_dirty),
                   !.m_cow_group_size = U32Int(sz.m_cow_group_size),
                   !.m_cow_group_size_bytes = U32Int(sz.m_cow_group_size_bytes),
                   !.m_cow_group_count = U32Int(sz.m_cow_group_count),
                   !.m_bitmap_size = U32Int(sz.m_bitmap_size),
                   !.m_cow_bitmap = NewBitmap(U32Int(sz.m_bitmap_size))]),
         outcome |-> IF sz.trapped THEN "trapped"
                     ELSE IF ~sz.assert_ok /\ ~s.NDEBUG THEN "aborted"
                     ELSE "ready"])

\* the sectors of group g other than its first
MidGroup(s, g) == (g * s.m_cow_group_size + 1)..((g + 1) * s.m_cow_group_size - 1)

InitScenario ==
    /\ \E ndebug \in BOOLEAN :
          bs = [NewStore(FsFile(OrigImage(WindowBytes)),
                         FsFile([i \in 1..WindowBytes |-> 0]))
                EXCEPT !.NDEBUG = ndebug]
    /\ fs = FsFile(OrigImage(WindowBytes))
    /\ last = NoCall
    /\ hist = NoCall
    /\ phase = "new"
    /\ nops = 0
    /\ sizing = NoSizing

ScenarioConstruct(buffer_size, dz) ==
    /\ phase = "new"
    /\ LET r == ScenarioStore(bs, DefaultBitmapSize, buffer_size, DefaultBlockSize, dz)
       IN  /\ bs' = r.s
           /\ phase' = r.outcome
    /\ last' = [NoCall EXCEPT !.op = "construct"]
    /\ UNCHANGED <<fs, hist, nops, sizing>>

\* cow_test.cpp, one_write: set_position, then cow_write of the buffer
ScenarioWrite(start_byte, size, tag) ==
    /\ phase = "ready"
    /\ nops = 0
    /\ LET buf == Payload(tag, size)
           r == cow_write(set_position(bs, start_byte), buf, size)
           call == [op |-> "cow_write", from |-> start_byte, count |-> size,
                    ret |-> r.ret, buf |-> buf, chunks |-> <<>>, cow |-> r.cow]
       IN  /\ bs' = r.s
           /\ fs' = FsWrite(FsSeek(fs, start_byte), buf, size).file
           /\ last' = call
           /\ hist' = call
           /\ phase' = IF r.aborted THEN "aborted"
                       ELSE IF r.hang THEN "hung" ELSE "ready"
    /\ nops' = nops + 1
    /\ UNCHANGED sizing

\* cow_test.cpp, one_read: set_position, then cow_read
ScenarioRead(start_byte, size) ==
    /\ phase = "ready"
    /\ nops > 0
    /\ nops < MaxOps
    /\ LET r == cow_read(set_position(bs, start_byte), size)
       IN  /\ bs' = r.s
           /\ last' = [op |-> "cow_read", from |-> start_byte, count |-> size,
                       ret |-> r.ret, buf |-> r.buf, chunks |-> r.chunks,
                       cow |-> <<>>]
           /\ phase' = IF r.aborted THEN "aborted" ELSE "ready"
    /\ nops' = nops + 1
    /\ UNCHANGED <<fs, hist, sizing>>

NextScenario ==
    \/ \E buf \in ScenarioBuffers, dz \in DivZeroOutcomes : ScenarioConstruct(buf, dz)
    \/ \E start \in MidGroup(bs, 2), tag \in ScenarioTags :
          ScenarioWrite(start * bs.m_scsi_block_size,
                        WriteSectors * bs.m_scsi_block_size, tag)
    \/ ScenarioRead(hist.from, hist.count)
    \/ ScenarioRead(hist.from - bs.m_scsi_block_size, bs.m_scsi_block_size)

SpecScenario == InitScenario /\ [][NextScenario]_vars

\* the groups marked dirty
DirtyGroups == {g \in Groups : getGroupImageType(bs, g) = IMG_TYPE_DIRTY}

\* C12, as the code has it: construction gives groups of 10 blocks, 8192
\* groups and a bitmap of 1024 bytes; a write of WriteSectors blocks that
\* starts inside group 2 after its first block ends in group 2 or in
\* group 3 and never reaches group 4: it succeeds, copies the part of
\* group 2 before it and the rest of the group it ends in (nothing when it
\* ends with that group) from the original to the overlay, puts the payload
\* in the overlay and marks dirty exactly the groups from 2 to the one it
\* ends in; reading the same range then returns the payload, and reading
\* the block before the write returns the original's block
C12_ConcreteScenario ==
    phase # "new" =>
        /\ phase = "ready"
        /\ bs.m_cow_group_size = 10
        /\ bs.m_cow_group_count = 8192
        /\ bs.m_bitmap_size = 1024
        /\ hist.op = "cow_write" =>
              LET from == hist.from
                  to == hist.from + hist.count
                  last_group == (to - 1) \div 5120
                  prefix == <<Promotion(10240, from, from - 10240)>>
                  suffix == IF to < (last_group + 1) * 5120
                            THEN <<Promotion(to, (last_group + 1) * 5120,
                                             (last_group + 1) * 5120 - to)>>
                            ELSE <<>>
                  overlay == bs.m_fsfile_dirty.m_data
                  orig == OrigImage(WindowBytes)
              IN  /\ hist.count = 512 * WriteSectors
                  /\ hist.ret = hist.count
                  /\ last_group \in {2, 3}
                  /\ (last_group + 1) * 5120 <= WindowBytes
                  /\ hist.cow = prefix \o suffix
                  /\ DirtyGroups = 2..last_group
                  /\ SubSeq(overlay, from + 1, to) = hist.buf
                  /\ SubSeq(overlay, 10241, from) = SubSeq(orig, 10241, from)
                  /\ SubSeq(overlay, to + 1, (last_group + 1) * 5120)
                        = SubSeq(orig, to + 1, (last_group + 1) * 5120)
                  /\ bs.m_fsfile_orig.m_data = orig
                  /\ (last.op = "cow_read" /\ last.from = from) =>
                        (last.ret = hist.count /\ last.buf = hist.buf)
                  /\ (last.op = "cow_read" /\ last.from = from - 512) =>
                        /\ last.ret = 512
                        /\ last.buf = SubSeq(orig, from - 511, from)

\* C12, as stated: the write reaches group 4, the rest of group 4 is
\* copied and the groups 2, 3 and 4 are dirty
C12_ScenarioAsStated ==
    (phase = "ready" /\ hist.op = "cow_write") =>
        LET from == hist.from
            to == hist.from + hist.count
        IN  /\ bs.m_cow_group_size = 10
            /\ bs.m_cow_group_count = 8192
            /\ bs.m_bitmap_size = 1024
            /\ hist.ret = hist.count
            /\ (to - 1) \div 5120 = 4
            /\ hist.cow = <<Promotion(10240, from, from - 10240),
                            Promotion(to, 25600, 25600 - to)>>
            /\ DirtyGroups = {2, 3, 4}
            /\ (last.op = "cow_read" /\ last.from = from) =>
                  (last.ret = hist.count /\ last.buf = hist.buf)
            /\ (last.op = "cow_read" /\ last.from = from - 512) =>
                  /\ last.ret = 512
                  /\ last.buf = SubSeq(OrigImage(WindowBytes), from - 511, from)

\* a write from block 25 or later, into group 3, then both reads
C12_Witness ==
    /\ phase = "ready"
    /\ hist.op = "cow_write"
    /\ hist.ret = hist.count
    /\ Len(hist.cow) = 2
    /\ DirtyGroups = {2, 3}
    /\ last.op = "cow_read"
    /\ last.from = hist.from - 512
    /\ last.buf = SubSeq(OrigImage(WindowBytes), hist.from - 511, hist.from)
    /\ bs.m_bytes_requested_read = hist.count + 512

----------------------------------------------------------------------------
(* The offset arithmetic of cow_read and cow_write on its own, at the      *)
(* default parameters, over images of about 2^32 bytes and more.  A        *)
(* uint64_t is held as a uint32_t whose hi half is not reduced.            *)

\* 2^32
TwoTo32 == [hi |-> Half, lo |-> 0]

\* a + k for a small integer k, not reduced
WideAdd(a, k) ==
    [hi |-> a.hi + ((a.lo + k) \div Half), lo |-> (a.lo + k) % Half]

\* static_cast<uint32_t> of a uint64_t
ToU32(a) == [hi |-> a.hi % Half, lo |-> a.lo]

\* groupFromOffset in uint32_t, with the geometry sz the constructor found
groupFromOffset32(sz, scsi_block_size, offset) ==
    U32Div(U32Div(offset, sz.m_cow_group_size), U32(scsi_block_size))

\* offsetFromGroup in uint32_t
offsetFromGroup32(sz, scsi_block_size, group) ==
    U32MulSmall(U32MulSmall(group, U32Int(sz.m_cow_group_size)), scsi_block_size)

\* the images: their sizes in blocks of DefaultBlockSize bytes (2^32 bytes
\* less one group, 2^32 bytes, 2^33 bytes)
AddressingSectors == {2 ^ 23 - 1024, 2 ^ 23, 2 ^ 24}

\* the cursor positions tried in an image of `size` bytes: the first bytes,
\* the last ones, and the bytes on both sides of 2^32
AddressingPositions(size) ==
    {p \in {U32(j) : j \in 0..MaxBack}
           \cup {PairSub(size, U32(k)) : k \in 1..MaxBack}
           \cup {PairSub(TwoTo32, U32(k)) : k \in 1..MaxBack}
           \cup {WideAdd(TwoTo32, j) : j \in 0..MaxBack} :
        U32Less(p, size)}

InitAddressing ==
    /\ \E sectors \in AddressingSectors :
          sizing = [done |-> FALSE, total_sectors |-> U32(sectors),
                    image_size_bytes |-> PairMul(U32(sectors), DefaultBlockSize)]
    /\ bs = NewStore(FsFile(<<>>), FsFile(<<>>))
    /\ fs = FsFile(<<>>)
    /\ last = NoCall
    /\ hist = [all_ok |-> TRUE, aligned |-> TRUE]
    /\ phase = "new"
    /\ nops = 0

\* lines 34-48 of the constructor over the image
AddressingConstruct(dz) ==
    /\ phase = "new"
    /\ sizing' = [done |-> FALSE, total_sectors |-> sizing.total_sectors,
                  image_size_bytes |-> sizing.image_size_bytes,
                  r |-> Sizing(sizing.total_sectors, U32(DefaultBitmapSize),
                               DefaultBlockSize, dz)]
    /\ phase' = "addressing"
    /\ UNCHANGED <<bs, fs, last, hist, nops>>

\* set_position(pos), then what cow_read(buf, count) and cow_write(buf,
\* count) compute before they touch a file: from and to (lines 206-207 and
\* 344-345), and the groups and group offsets that cow_write(from, to, buf)
\* and the inner loop of cow_read(from, to, buf) take from them
AddressingCall(pos, count) ==
    /\ phase = "addressing"
    /\ ~sizing.done
    /\ LET from == ToU32(pos)
           to == U32Add(from, ToU32(U32(count)))
           first_group == groupFromOffset32(sizing.r, DefaultBlockSize, from)
           last_group == groupFromOffset32(sizing.r, DefaultBlockSize, U32Sub(to, U32(1)))
       IN  sizing' = [done |-> TRUE, total_sectors |-> sizing.total_sectors,
                      image_size_bytes |-> sizing.image_size_bytes,
                      r |-> sizing.r,
                      m_current_position |-> pos,
                      count |-> count,
                      from |-> from,
                      to |-> to,
                      first_group |-> first_group,
                      last_group |-> last_group,
                      group_start |-> offsetFromGroup32(sizing.r, DefaultBlockSize,
                                                        first_group),
                      group_end |-> offsetFromGroup32(sizing.r, DefaultBlockSize,
                                                      U32Add(last_group, U32(1)))]
    /\ UNCHANGED <<bs, fs, last, hist, phase, nops>>

NextAddressing ==
    \/ \E dz \in DivZeroOutcomes : AddressingConstruct(dz)
    \/ \E pos \in AddressingPositions(sizing.image_size_bytes) :
          \E count \in {c \in 1..MaxCount :
                           U32Leq(WideAdd(pos, c), sizing.image_size_bytes)} :
             AddressingCall(pos, count)

SpecAddressing == InitAddressing /\ [][NextAddressing]_vars

\* the first byte of group g, as a number that does not wrap
GroupFirstByte(sz, scsi_block_size, g) ==
    PairMul(PairMul(g, U32Int(sz.m_cow_group_size)), scsi_block_size)

\* C33: for a cursor position p and a count c with p + c at most the size
\* of the image, the uint32_t values the call works with are the numbers
\* themselves: from is p, to is p + c, the first and the last group are the
\* groups that hold byte p and byte p + c - 1, and the offsets of the start
\* of the first group and of the end of the last one are not reduced modulo
\* 2^32; this for images of 2^32 bytes and more too.
C33_OffsetsDoNotWrap ==
    (phase = "addressing" /\ sizing.done) =>
        LET p == sizing.m_current_position
            end == WideAdd(p, sizing.count)
            First(g) == GroupFirstByte(sizing.r, DefaultBlockSize, g)
        IN  /\ sizing.from = p
            /\ sizing.to = end
            /\ U32Leq(First(sizing.first_group), p)
            /\ U32Less(p, First(WideAdd(sizing.first_group, 1)))
            /\ U32Less(First(sizing.last_group), end)
            /\ U32Leq(end, First(WideAdd(sizing.last_group, 1)))
            /\ sizing.group_start = First(sizing.first_group)
            /\ sizing.group_end = First(WideAdd(sizing.last_group, 1))

============================================================================
